---- MODULE Spec2Model ----
(***************************************************************************)
(* DIFuse: a dependency-injection container.  The model covers the         *)
(* Container (provider table, instance cache, parent set), the providers   *)
(* (constant, service, interface, custom) and the service-level "locals"   *)
(* container that Container.service / Container.interface attach to every  *)
(* provider they build.                                                    *)
(*                                                                         *)
(* Container.get and the providers' get call each other recursively; they  *)
(* are modelled as recursive operators that thread the whole heap (the     *)
(* record st) through the calls and return it with the outcome, so that a  *)
(* throw keeps the writes made before it.                                  *)
(***************************************************************************)
EXTENDS Naturals, Sequences, FiniteSets, TLC

VARIABLES
  providers,    \* Container.providers of every container: identifier -> provider
  cache,        \* Container.cache of every container: identifier -> instance
  parents,      \* Container.parents of every container, in insertion order
  constructed,  \* per provider (named by its locals container): how often its constructor ran;
                \* for a custom provider whose function is a closure with a counter, that counter
  last          \* the call made last and what it returned or threw

vars == <<providers, cache, parents, constructed, last>>

----------------------------------------------------------------------------
(* Bounds of the model *)

\* Call-stack depth after which the engine raises RangeError.
MaxDepth == 16

\* Constructor invocations per provider after which get is no longer explored.
MaxCtor == 2

----------------------------------------------------------------------------
(* Identifiers, values, containers *)

Regs == {"r1", "r2", "r3"}

Tokens == {"t1", "t2", "i1"}

\* Service classes and Function.length of each (the declared parameter count).
Services == {"A", "B", "C"}

Arity == [A |-> 0, B |-> 1, C |-> 2]

Ids == Tokens \cup Services

\* A value that is neither a Token nor a function ('hey' in the tests).
NotAnId == "hey"

\* The `name` of every identifier: the label given to `new Token(name)`, and
\* Function.name of a service class.  The tokens t1 and t2 carry the same one.
Name == [t1 |-> "x", t2 |-> "x", i1 |-> "i", A |-> "A", B |-> "B", C |-> "C"]

IsToken(x) == x \in Tokens

IsFunction(x) == x \in Services

\* JavaScript values: undefined, null, primitives, and objects made by `new`.
Undefined == [k |-> "undefined"]

Null == [k |-> "null"]

Prim(s) == [k |-> "prim", v |-> s]

Instance(ctor, args, at, n) == [k |-> "object", ctor |-> ctor, args |-> args, at |-> at, n |-> n]

Num(n) == [k |-> "num", v |-> n]

\* `if (cached)`: undefined, null, 0, '' and false are falsy.
Truthy(v) ==
  CASE v.k \in {"undefined", "null"} -> FALSE
    [] v.k = "num" -> v.v # 0
    [] v.k = "prim" -> v.v # ""
    [] v.k = "bool" -> v.v
    [] OTHER -> TRUE

ConstValues == {Undefined, Null, Prim("a"), Prim("b")}

\* A container is named by a pair: <<r, "-">> is the container the program
\* created under the name r, <<r, id>> is the `locals` container that
\* r.service(id, ..) or r.interface(id, ..) created for its provider.
Top(r) == <<r, "-">>

LocalsOf(r, id) == <<r, id>>

Containers == Regs \X ({"-"} \cup Ids)

TopContainers == {Top(r) : r \in Regs}

EmptyMap == [x \in {} |-> Undefined]

MapSet(m, key, v) == [x \in DOMAIN m \cup {key} |-> IF x = key THEN v ELSE m[x]]

MapGet(m, key) == IF key \in DOMAIN m THEN m[key] ELSE Undefined

InSeq(s, x) == \E i \in 1..Len(s) : s[i] = x

----------------------------------------------------------------------------
(* Outcomes of a call: the heap after it and a return value or a throw *)

Ret(st, v) == [st |-> st, ok |-> TRUE, val |-> v, err |-> "none"]

Throw(st, e) == [st |-> st, ok |-> FALSE, val |-> Undefined, err |-> e]

Heap == [providers |-> providers, cache |-> cache, parents |-> parents, constructed |-> constructed]

----------------------------------------------------------------------------
(* Providers *)

ConstantProvider(token, value) == [kind |-> "constant", serviceID |-> token, value |-> value]

ServiceProviderRec(service, deps, locals) == [kind |-> "service", serviceID |-> service, service |-> service, dependencies |-> deps, locals |-> locals]

InterfaceProviderRec(token, service, deps, locals) == [kind |-> "interface", serviceID |-> token, service |-> service, dependencies |-> deps, locals |-> locals]

CustomProvider(id, fn) == [kind |-> "custom", serviceID |-> id, fn |-> fn]

\* Mutant of ArityOk: only a list that is too short is rejected.
ArityAtMost(service, deps) == Arity[service] <= Len(deps)

\* The check in the constructors of ServiceProvider and InterfaceProvider.
ArityOk(service, deps) == Arity[service] = Len(deps)

\* Mutant of SetAdd: an array push, a member can be added twice.
SetAddAlways(s, x) == Append(s, x)

\* Set.add on the parent set: insertion order is kept, a member is not added twice.
SetAdd(s, x) == IF InSeq(s, x) THEN s ELSE Append(s, x)

ContainerInherit(st, c, p) == [st EXCEPT !.parents[c] = SetAdd(@, p)]

\* The `locals` of a provider that was constructed without one.
NoLocals == <<"-", "-">>

\* ServiceProvider.inherit / InterfaceProvider.inherit: the heap after it ...
ProviderInherit(st, prov, container) ==
  IF prov.locals = NoLocals THEN st ELSE ContainerInherit(st, prov.locals, container)

\* ... and the container it returns.
InheritResolver(prov, container) ==
  IF prov.locals = NoLocals THEN container ELSE prov.locals

RECURSIVE ContainerHas(_, _, _, _)
RECURSIVE HasParents(_, _, _, _, _)
RECURSIVE ContainerGet(_, _, _, _)
RECURSIVE GetParents(_, _, _, _, _)
RECURSIVE ProviderGet(_, _, _, _)
RECURSIVE ResolveDeps(_, _, _, _, _, _)

\* Container.has: "true", "false", or "overflow" when the stack is exhausted.
ContainerHas(st, c, id, fuel) ==
  IF fuel = 0 THEN "overflow"
  ELSE IF id \in DOMAIN st.cache[c] \/ id \in DOMAIN st.providers[c] THEN "true"
  ELSE HasParents(st, c, id, 1, fuel - 1)

HasParents(st, c, id, i, fuel) ==
  IF i > Len(st.parents[c]) THEN "false"
  ELSE LET h == ContainerHas(st, st.parents[c][i], id, fuel)
       IN IF h = "false" THEN HasParents(st, c, id, i + 1, fuel) ELSE h

\* `new service(...services)`; the constructor calls are counted per locals
\* container, a provider without one makes objects that are not told apart.
Construct(st, prov, services) ==
  IF prov.locals = NoLocals THEN Ret(st, Instance(prov.service, services, NoLocals, 0))
  ELSE LET n == st.constructed[prov.locals] + 1
       IN Ret([st EXCEPT !.constructed[prov.locals] = n],
              Instance(prov.service, services, prov.locals, n))

\* The function of a custom provider, called with the container:
\*   value    container => value
\*   throw    container => { throw new Error() }
\*   get      container => container.get(dep)
\*   count    container => n++                      (n starts at 0)
\*   reenter  container => { if (n++ === 0) container.get(id); return {} }
\* The n of the last two is kept in constructed[fn.at].
CallFn(st, fn, container, fuel) ==
  CASE fn.f = "value" -> Ret(st, fn.value)
    [] fn.f = "throw" -> Throw(st, "Custom")
    [] fn.f = "get"   -> ContainerGet(st, container, fn.dep, fuel)
    [] fn.f = "count" -> Ret([st EXCEPT !.constructed[fn.at] = @ + 1], Num(st.constructed[fn.at]))
    [] fn.f = "reenter" ->
         LET n == st.constructed[fn.at] + 1
             entered == [st EXCEPT !.constructed[fn.at] = n]
             made == Instance("Object", <<>>, fn.at, n)
         IN IF n > 1 THEN Ret(entered, made)
            ELSE LET r == ContainerGet(entered, container, fn.id, fuel)
                 IN IF ~r.ok THEN r ELSE Ret(r.st, made)

\* Mutant of ProviderGet: the dependencies are resolved on the container that
\* was passed in, not on the provider's locals.
ProviderGetIgnoresLocals(st, prov, container, fuel) ==
  IF fuel = 0 THEN Throw(st, "RangeError")
  ELSE CASE prov.kind = "constant" -> Ret(st, prov.value)
         [] prov.kind = "custom" -> CallFn(st, prov.fn, container, fuel - 1)
         [] prov.kind \in {"service", "interface"} ->
              ResolveDeps(st, prov, container, 1, <<>>, fuel - 1)

\* Provider.get(container) of the four kinds of provider.
ProviderGet(st, prov, container, fuel) ==
  IF fuel = 0 THEN Throw(st, "RangeError")
  ELSE CASE prov.kind = "constant" -> Ret(st, prov.value)
         [] prov.kind = "custom" -> CallFn(st, prov.fn, container, fuel - 1)
         [] prov.kind \in {"service", "interface"} ->
              ResolveDeps(ProviderInherit(st, prov, container), prov,
                          InheritResolver(prov, container), 1, <<>>, fuel - 1)

\* Mutant of ResolveDeps: each resolved dependency is put in front of the
\* ones resolved before it.
ResolveDepsReversed(st, prov, resolver, i, services, fuel) ==
  IF i > Len(prov.dependencies) THEN Construct(st, prov, services)
  ELSE LET dependency == prov.dependencies[i]
           h == ContainerHas(st, resolver, dependency, fuel)
       IN IF h = "overflow" THEN Throw(st, "RangeError")
          ELSE IF h = "false" THEN Throw(st, "Unresolved")
          ELSE LET r == ContainerGet(st, resolver, dependency, fuel)
               IN IF ~r.ok THEN r
                  ELSE ResolveDeps(r.st, prov, resolver, i + 1, <<r.val>> \o services, fuel)

\* Mutant of ResolveDeps: a dependency the resolver does not have is passed
\* to the constructor as undefined.
ResolveDepsSkipsMissing(st, prov, resolver, i, services, fuel) ==
  IF i > Len(prov.dependencies) THEN Construct(st, prov, services)
  ELSE LET dependency == prov.dependencies[i]
           h == ContainerHas(st, resolver, dependency, fuel)
       IN IF h = "overflow" THEN Throw(st, "RangeError")
          ELSE IF h = "false"
               THEN ResolveDeps(st, prov, resolver, i + 1, Append(services, Undefined), fuel)
               ELSE LET r == ContainerGet(st, resolver, dependency, fuel)
                    IN IF ~r.ok THEN r
                       ELSE ResolveDeps(r.st, prov, resolver, i + 1, Append(services, r.val), fuel)

\* The loop over the dependencies in ServiceProvider.get / InterfaceProvider.get.
ResolveDeps(st, prov, resolver, i, services, fuel) ==
  IF i > Len(prov.dependencies) THEN Construct(st, prov, services)
  ELSE LET dependency == prov.dependencies[i]
           h == ContainerHas(st, resolver, dependency, fuel)
       IN IF h = "overflow" THEN Throw(st, "RangeError")
          ELSE IF h = "false" THEN Throw(st, "Unresolved")
          ELSE LET r == ContainerGet(st, resolver, dependency, fuel)
               IN IF ~r.ok THEN r
                  ELSE ResolveDeps(r.st, prov, resolver, i + 1, Append(services, r.val), fuel)

\* Mutant of ContainerGet: the produced service is not stored in the cache.
ContainerGetNoCache(st, c, id, fuel) ==
  IF fuel = 0 THEN Throw(st, "RangeError")
  ELSE LET cached == MapGet(st.cache[c], id)
       IN IF Truthy(cached) THEN Ret(st, cached)
          ELSE IF id \in DOMAIN st.providers[c]
               THEN ProviderGet(st, st.providers[c][id], c, fuel - 1)
               ELSE GetParents(st, c, id, 1, fuel - 1)

\* Mutant of ContainerGet: `cached` is returned where `service` should be.
ContainerGetReturnsCached(st, c, id, fuel) ==
  IF fuel = 0 THEN Throw(st, "RangeError")
  ELSE LET cached == MapGet(st.cache[c], id)
       IN IF Truthy(cached) THEN Ret(st, cached)
          ELSE IF id \in DOMAIN st.providers[c]
               THEN LET r == ProviderGet(st, st.providers[c][id], c, fuel - 1)
                    IN IF ~r.ok THEN r
                       ELSE Ret([r.st EXCEPT !.cache[c] = MapSet(@, id, r.val)], cached)
               ELSE GetParents(st, c, id, 1, fuel - 1)

\* Mutant of ContainerGet: what a parent returned is stored in the cache of
\* the container that asked.
ContainerGetCachesInherited(st, c, id, fuel) ==
  IF fuel = 0 THEN Throw(st, "RangeError")
  ELSE LET cached == MapGet(st.cache[c], id)
       IN IF Truthy(cached) THEN Ret(st, cached)
          ELSE LET r == IF id \in DOMAIN st.providers[c]
                        THEN ProviderGet(st, st.providers[c][id], c, fuel - 1)
                        ELSE GetParents(st, c, id, 1, fuel - 1)
               IN IF ~r.ok THEN r
                  ELSE Ret([r.st EXCEPT !.cache[c] = MapSet(@, id, r.val)], r.val)

\* Mutant of ContainerGet: a container without a provider asks itself before
\* it asks its parents.
ContainerGetAsksItself(st, c, id, fuel) ==
  IF fuel = 0 THEN Throw(st, "RangeError")
  ELSE LET cached == MapGet(st.cache[c], id)
       IN IF Truthy(cached) THEN Ret(st, cached)
          ELSE IF id \in DOMAIN st.providers[c]
               THEN LET r == ProviderGet(st, st.providers[c][id], c, fuel - 1)
                    IN IF ~r.ok THEN r
                       ELSE Ret([r.st EXCEPT !.cache[c] = MapSet(@, id, r.val)], r.val)
               ELSE LET own == ContainerGet(st, c, id, fuel - 1)
                    IN IF own.ok /\ own.val # Undefined THEN own
                       ELSE IF own.err = "RangeError" THEN own
                       ELSE GetParents(st, c, id, 1, fuel - 1)

\* Mutant of ContainerGet: the parents are asked before the local provider.
ContainerGetParentsFirst(st, c, id, fuel) ==
  IF fuel = 0 THEN Throw(st, "RangeError")
  ELSE LET cached == MapGet(st.cache[c], id)
           up == GetParents(st, c, id, 1, fuel - 1)
       IN IF Truthy(cached) THEN Ret(st, cached)
          ELSE IF up.ok THEN up
          ELSE IF id \in DOMAIN st.providers[c]
               THEN LET r == ProviderGet(up.st, st.providers[c][id], c, fuel - 1)
                    IN IF ~r.ok THEN r
                       ELSE Ret([r.st EXCEPT !.cache[c] = MapSet(@, id, r.val)], r.val)
               ELSE up

\* Container.get
ContainerGet(st, c, id, fuel) ==
  IF fuel = 0 THEN Throw(st, "RangeError")
  ELSE LET cached == MapGet(st.cache[c], id)
       IN IF Truthy(cached) THEN Ret(st, cached)
          ELSE IF id \in DOMAIN st.providers[c]
               THEN LET r == ProviderGet(st, st.providers[c][id], c, fuel - 1)
                    IN IF ~r.ok THEN r
                       ELSE Ret([r.st EXCEPT !.cache[c] = MapSet(@, id, r.val)], r.val)
               ELSE GetParents(st, c, id, 1, fuel - 1)

\* Mutant of GetParents: undefined is returned where the loop should throw.
GetParentsReturnsUndefined(st, c, id, i, fuel) ==
  IF i > Len(st.parents[c]) THEN Ret(st, Undefined)
  ELSE LET r == ContainerGet(st, st.parents[c][i], id, fuel)
       IN IF ~r.ok THEN r
          ELSE IF r.val # Undefined THEN r
          ELSE GetParents(r.st, c, id, i + 1, fuel)

\* Mutant of GetParents: a provider found on a parent is run against the
\* container that was asked, not against the parent that holds it.
GetParentsBuildsForCaller(st, c, id, i, fuel) ==
  IF i > Len(st.parents[c]) THEN Throw(st, "NotFound")
  ELSE LET p == st.parents[c][i]
       IN IF id \in DOMAIN st.providers[p] /\ ~Truthy(MapGet(st.cache[p], id))
          THEN LET r == ProviderGet(st, st.providers[p][id], c, fuel)
               IN IF ~r.ok THEN r
                  ELSE Ret([r.st EXCEPT !.cache[p] = MapSet(@, id, r.val)], r.val)
          ELSE LET r == ContainerGet(st, p, id, fuel)
               IN IF ~r.ok THEN r
                  ELSE IF r.val # Undefined THEN r
                  ELSE GetParents(r.st, c, id, i + 1, fuel)

\* The loop over the parents in Container.get, and the throw after it.
GetParents(st, c, id, i, fuel) ==
  IF i > Len(st.parents[c]) THEN Throw(st, "NotFound")
  ELSE LET r == ContainerGet(st, st.parents[c][i], id, fuel)
       IN IF ~r.ok THEN r
          ELSE IF r.val # Undefined THEN r
          ELSE GetParents(r.st, c, id, i + 1, fuel)

----------------------------------------------------------------------------
(* Operations of Container, as functions of the heap *)

\* Mutant of Exists: the cache is consulted, not the provider table.
ExistsInCache(st, c, id) == id \in DOMAIN st.cache[c]

\* Container.exists: does the duplicate check throw?
Exists(st, c, id) == id \in DOMAIN st.providers[c]

\* Container.constant
\* Mutant of ContainerConstant: the token argument is not checked.
ConstantUnchecked(st, c, token, value) ==
  IF token \in DOMAIN st.providers[c] THEN Throw(st, "Duplicate")
  ELSE Ret([st EXCEPT !.providers[c] = MapSet(@, token, ConstantProvider(token, value))], Undefined)

\* Mutant of ContainerConstant: a token of the same name counts as registered.
ConstantDuplicateByName(st, c, token, value) ==
  IF ~IsToken(token) THEN Throw(st, "TypeError")
  ELSE IF \E x \in DOMAIN st.providers[c] : Name[x] = Name[token] THEN Throw(st, "Duplicate")
  ELSE Ret([st EXCEPT !.providers[c] = MapSet(@, token, ConstantProvider(token, value))], Undefined)

ContainerConstant(st, c, token, value) ==
  IF ~IsToken(token) THEN Throw(st, "TypeError")
  ELSE IF token \in DOMAIN st.providers[c] THEN Throw(st, "Duplicate")
  ELSE Ret([st EXCEPT !.providers[c] = MapSet(@, token, ConstantProvider(token, value))], Undefined)

\* The `container` callback of service / interface: it is handed the fresh
\* locals container and defines the constants of the sequence binds on it.
RECURSIVE RunCallback(_, _, _, _)
RunCallback(st, locals, binds, i) ==
  IF i > Len(binds) THEN Ret(st, Undefined)
  ELSE LET r == ContainerConstant(st, locals, binds[i][1], binds[i][2])
       IN IF ~r.ok THEN r ELSE RunCallback(r.st, locals, binds, i + 1)

\* Mutant of ContainerService: the provider is stored first and its
\* dependency count is validated afterwards.
ServiceStoredBeforeValidated(st, r, service, deps, binds) ==
  IF ~IsFunction(service) THEN Throw(st, "TypeError")
  ELSE IF Exists(st, Top(r), service) THEN Throw(st, "Duplicate")
  ELSE LET locals == LocalsOf(r, service)
           cb == RunCallback(st, locals, binds, 1)
           stored == [cb.st EXCEPT !.providers[Top(r)] =
                        MapSet(@, service, ServiceProviderRec(service, deps, locals))]
       IN IF ~cb.ok THEN Throw(st, cb.err)
          ELSE IF ~ArityOk(service, deps) THEN Throw(stored, "Arity")
          ELSE Ret(stored, Undefined)

\* Container.service
ContainerService(st, r, service, deps, binds) ==
  IF ~IsFunction(service) THEN Throw(st, "TypeError")
  ELSE IF Exists(st, Top(r), service) THEN Throw(st, "Duplicate")
  ELSE LET locals == LocalsOf(r, service)
           cb == RunCallback(st, locals, binds, 1)
       IN IF ~cb.ok THEN Throw(st, cb.err)
          ELSE IF ~ArityOk(service, deps) THEN Throw(st, "Arity")
          ELSE Ret([cb.st EXCEPT !.providers[Top(r)] =
                      MapSet(@, service, ServiceProviderRec(service, deps, locals))], Undefined)

\* Container.interface
\* Mutant of ContainerInterface: the provider is stored under the service
\* function, not under the token.
InterfaceKeyedByService(st, r, token, service, deps, binds) ==
  IF ~IsToken(token) \/ ~IsFunction(service) THEN Throw(st, "TypeError")
  ELSE IF Exists(st, Top(r), token) THEN Throw(st, "Duplicate")
  ELSE Ret([st EXCEPT !.providers[Top(r)] =
                        MapSet(@, service, InterfaceProviderRec(token, service, deps, LocalsOf(r, token)))],
           Undefined)

ContainerInterface(st, r, token, service, deps, binds) ==
  IF ~IsToken(token) THEN Throw(st, "TypeError")
  ELSE IF ~IsFunction(service) THEN Throw(st, "TypeError")
  ELSE IF Exists(st, Top(r), token) THEN Throw(st, "Duplicate")
  ELSE LET locals == LocalsOf(r, token)
           cb == RunCallback(st, locals, binds, 1)
       IN IF ~cb.ok THEN Throw(st, cb.err)
          ELSE IF ~ArityOk(service, deps) THEN Throw(st, "Arity")
          ELSE Ret([cb.st EXCEPT !.providers[Top(r)] =
                      MapSet(@, token, InterfaceProviderRec(token, service, deps, locals))], Undefined)

\* Container.provider
\* Mutant of ContainerProvider: the function is called once at registration
\* and what it returns is stored in the cache.
ContainerProviderEager(st, r, id, fn) ==
  IF Exists(st, Top(r), id) THEN Throw(st, "Duplicate")
  ELSE ContainerGet([st EXCEPT !.providers[Top(r)] = MapSet(@, id, CustomProvider(id, fn))],
                    Top(r), id, MaxDepth)

\* Mutant of ContainerProvider: a service function that declares parameters
\* is refused.
ContainerProviderChecksArity(st, r, id, fn) ==
  IF Exists(st, Top(r), id) THEN Throw(st, "Duplicate")
  ELSE IF IsFunction(id) /\ ~ArityOk(id, <<>>) THEN Throw(st, "Arity")
  ELSE Ret([st EXCEPT !.providers[Top(r)] = MapSet(@, id, CustomProvider(id, fn))], Undefined)

ContainerProvider(st, r, id, fn) ==
  IF Exists(st, Top(r), id) THEN Throw(st, "Duplicate")
  ELSE Ret([st EXCEPT !.providers[Top(r)] = MapSet(@, id, CustomProvider(id, fn))], Undefined)

----------------------------------------------------------------------------
(* The state machine: one action per call the program makes on a container *)

Init ==
  /\ providers = [c \in Containers |-> EmptyMap]
  /\ cache = [c \in Containers |-> EmptyMap]
  /\ parents = [c \in Containers |-> <<>>]
  /\ constructed = [c \in Containers |-> 0]
  /\ last = [op |-> "new", c |-> "-", id |-> "-", arg |-> <<>>, ok |-> TRUE, val |-> Undefined, err |-> "none"]

\* The heap after the call becomes the state; last records the call (the
\* container it was made on, its identifier argument, and for service and
\* interface the constructor and the dependency list) and its outcome.
Apply(op, r, id, arg, res) ==
  /\ providers' = res.st.providers
  /\ cache' = res.st.cache
  /\ parents' = res.st.parents
  /\ constructed' = res.st.constructed
  /\ last' = [op |-> op, c |-> r, id |-> id, arg |-> arg, ok |-> res.ok, val |-> res.val, err |-> res.err]

Constant(r, token, value) ==
  /\ r \in Regs
  /\ Apply("constant", r, token, <<>>, ContainerConstant(Heap, Top(r), token, value))

Service(r, service, deps, binds) ==
  /\ r \in Regs
  /\ Apply("service", r, service, <<service, deps>>, ContainerService(Heap, r, service, deps, binds))

Interface(r, token, service, deps, binds) ==
  /\ r \in Regs
  /\ Apply("interface", r, token, <<service, deps>>, ContainerInterface(Heap, r, token, service, deps, binds))

Provider(r, id, fn) ==
  /\ r \in Regs
  /\ Apply("provider", r, id, <<>>, ContainerProvider(Heap, r, id, fn))

Inherit(r, p) ==
  /\ r \in Regs /\ p \in Regs
  /\ Apply("inherit", r, p, <<>>, Ret(ContainerInherit(Heap, Top(r), Top(p)), Undefined))

Get(r, id) ==
  /\ \A c \in Containers : constructed[c] < MaxCtor
  /\ Apply("get", r, id, <<>>, ContainerGet(Heap, Top(r), id, MaxDepth))

\* JavaScript booleans.
Bool(b) == [k |-> "bool", v |-> b]

\* Mutant of HasOutcome: has answers by resolving the identifier.
HasByResolving(st, c, id) ==
  LET r == ContainerGet(st, c, id, MaxDepth)
  IN Ret(r.st, Bool(r.ok))

\* A call of has from outside: it returns a boolean or dies of stack exhaustion.
HasOutcome(st, c, id) ==
  LET h == ContainerHas(st, c, id, MaxDepth)
  IN IF h = "overflow" THEN Throw(st, "RangeError") ELSE Ret(st, Bool(h = "true"))

Has(r, id) ==
  /\ r \in Regs
  /\ Apply("has", r, id, <<>>, HasOutcome(Heap, Top(r), id))

\* `new ServiceProvider(B, [t1], local)` where local is the container r3, as
\* the provider tests build it: a provider that belongs to no container.
FreeProvider == ServiceProviderRec("B", <<"t1">>, Top("r3"))

\* provider.get(r) called directly on FreeProvider.
Produce(r) ==
  /\ constructed[FreeProvider.locals] < MaxCtor
  /\ Apply("produce", r, FreeProvider.serviceID, <<>>, ProviderGet(Heap, FreeProvider, Top(r), MaxDepth))

----------------------------------------------------------------------------
(* Spec: a hierarchy of three containers holding constants under one token *)

HierEdges == {<<"r3", "r1">>, <<"r3", "r2">>, <<"r2", "r1">>, <<"r1", "r1">>}

Next ==
  \/ \E r \in Regs, v \in ConstValues : Constant(r, "t1", v)
  \/ \E e \in HierEdges : Inherit(e[1], e[2])
  \/ \E r \in Regs : Get(r, "t1")

Spec == Init /\ [][Next]_vars

----------------------------------------------------------------------------
(* SpecServices: container r1 with a constant, the services A() and B(x),   *)
(* an interface bound to B, custom providers, and a child container r2      *)

Override == <<<<"t1", Prim("o")>>>>

NextServices ==
  \/ \E v \in {Undefined, Prim("a")} : Constant("r1", "t1", v)
  \/ Constant("r2", "t1", Prim("b"))
  \/ \E deps \in {<<>>, <<"t1">>} : Service("r1", "A", deps, <<>>)
  \/ \E deps \in {<<>>, <<"t1">>, <<"A">>, <<"t1", "A">>}, binds \in {<<>>, Override} : Service("r1", "B", deps, binds)
  \/ \E deps \in {<<>>, <<"t1">>}, binds \in {<<>>, Override} : Interface("r1", "i1", "B", deps, binds)
  \/ Inherit("r2", "r1")
  \/ \E r \in {"r1", "r2"}, id \in {"t1", "A", "B", "i1"} : Get(r, id)

SpecServices == Init /\ [][NextServices]_vars

----------------------------------------------------------------------------
(* SpecRegister: the four register operations competing for one token and   *)
(* one service function on two containers                                    *)

Fns == {[f |-> "value", value |-> Prim("c")], [f |-> "throw"]}

NextRegister ==
  \/ \E r \in {"r1", "r2"} : Constant(r, "t1", Prim("a"))
  \/ \E r \in {"r1", "r2"} : Service(r, "A", <<>>, <<>>)
  \/ \E r \in {"r1", "r2"} : Interface(r, "t1", "A", <<>>, <<>>)
  \/ \E r \in {"r1", "r2"}, id \in {"t1", "A"}, fn \in Fns : Provider(r, id, fn)
  \/ Inherit("r2", "r1")
  \/ \E r \in {"r1", "r2"}, id \in {"t1", "A"} : Get(r, id)

SpecRegister == Init /\ [][NextRegister]_vars

----------------------------------------------------------------------------
(* SpecDeps: container r1 with a constant and the services A(), B(x) and    *)
(* C(x, y), whose dependency lists name the constant and A in every order   *)

NextDeps ==
  \/ \E v \in {Undefined, Prim("a")} : Constant("r1", "t1", v)
  \/ Service("r1", "A", <<>>, <<>>)
  \/ \E deps \in {<<"t1">>, <<"A">>} : Service("r1", "B", deps, <<>>)
  \/ \E deps \in {<<"t1", "A">>, <<"A", "t1">>, <<"A", "A">>, <<"t1", "t1">>}, binds \in {<<>>, Override} :
        Service("r1", "C", deps, binds)
  \/ \E id \in {"t1", "A", "B", "C"} : Get("r1", id)

SpecDeps == Init /\ [][NextDeps]_vars

----------------------------------------------------------------------------
(* SpecHas: has and get asked of a chain r3 -> r2 -> r1 whose root may be   *)
(* made its own parent                                                       *)

HasEdges == {<<"r2", "r1">>, <<"r3", "r2">>, <<"r1", "r1">>}

NextHas ==
  \/ \E r \in {"r1", "r2"} : Constant(r, "t1", Prim("a"))
  \/ Service("r1", "A", <<>>, <<>>)
  \/ Interface("r1", "i1", "A", <<>>, <<>>)
  \/ \E e \in HasEdges : Inherit(e[1], e[2])
  \/ \E r \in Regs, id \in {"t1", "A", "i1"} : Get(r, id)
  \/ \E r \in Regs, id \in {"t1", "A", "i1"} : Has(r, id)

SpecHas == Init /\ [][NextHas]_vars

----------------------------------------------------------------------------
(* SpecLazy: every kind of registration on r1, among them a custom provider *)
(* whose function resolves the service A, and a child r2                     *)

LazyFns == {[f |-> "value", value |-> Prim("c")], [f |-> "get", dep |-> "A"]}

NextLazy ==
  \/ Constant("r1", "t1", Prim("a"))
  \/ Service("r1", "A", <<>>, <<>>)
  \/ Service("r1", "B", <<"A">>, <<>>)
  \/ Interface("r1", "i1", "A", <<>>, <<>>)
  \/ \E fn \in LazyFns : Provider("r1", "t2", fn)
  \/ Inherit("r2", "r1")
  \/ \E r \in {"r1", "r2"}, id \in {"t1", "A", "B", "i1", "t2"} : Get(r, id)

SpecLazy == Init /\ [][NextLazy]_vars

----------------------------------------------------------------------------
(* SpecTokens: constants under the tokens t1 and t2, which have the same    *)
(* name, on r1 and its child r2                                              *)

NextTokens ==
  \/ \E r \in {"r1", "r2"}, t \in {"t1", "t2"}, v \in {Prim("a"), Prim("b")} : Constant(r, t, v)
  \/ Inherit("r2", "r1")
  \/ \E r \in {"r1", "r2"}, t \in {"t1", "t2"} : Get(r, t)

SpecTokens == Init /\ [][NextTokens]_vars

----------------------------------------------------------------------------
(* SpecCustom: custom providers on r1 under the token t2 and the service    *)
(* function B, resolved on r1 and through its child r2                       *)

CustomFns(r, id) ==
  {[f |-> "value", value |-> Prim("c")],
   [f |-> "throw"],
   [f |-> "get", dep |-> "t1"],
   [f |-> "count", at |-> LocalsOf(r, id)],
   [f |-> "reenter", at |-> LocalsOf(r, id), id |-> id]}

NextCustom ==
  \/ \E v \in {Null, Prim("a")} : Constant("r1", "t1", v)
  \/ Constant("r2", "t1", Prim("b"))
  \/ \E id \in {"t2", "B"} : \E fn \in CustomFns("r1", id) : Provider("r1", id, fn)
  \/ Inherit("r2", "r1")
  \/ \E r \in {"r1", "r2"}, id \in {"t1", "t2", "B"} : Get(r, id)

SpecCustom == Init /\ [][NextCustom]_vars

----------------------------------------------------------------------------
(* SpecTypes: the register operations of r1 called with a token, a service  *)
(* function or the string 'hey' in every identifier position                 *)

AnyArgs == {"t1", "A", NotAnId}

NextTypes ==
  \/ \E token \in AnyArgs : Constant("r1", token, Prim("a"))
  \/ \E service \in AnyArgs : Service("r1", service, <<>>, <<>>)
  \/ \E token \in AnyArgs, service \in AnyArgs : Interface("r1", token, service, <<>>, <<>>)
  \/ Inherit("r2", "r1")
  \/ \E r \in {"r1", "r2"}, id \in {"t1", "A"} : Get(r, id)

SpecTypes == Init /\ [][NextTypes]_vars

----------------------------------------------------------------------------
(* SpecCycle: r1 and r2 may inherit each other and r1 itself; the services  *)
(* B and C of r1 may depend on each other                                    *)

CycleEdges == {<<"r1", "r1">>, <<"r1", "r2">>, <<"r2", "r1">>}

NextCycle ==
  \/ \E r \in {"r1", "r2"} : Constant(r, "t1", Prim("a"))
  \/ \E deps \in {<<"t1">>, <<"C">>} : Service("r1", "B", deps, <<>>)
  \/ \E deps \in {<<"t1", "t1">>, <<"B", "B">>} : Service("r1", "C", deps, <<>>)
  \/ \E e \in CycleEdges : Inherit(e[1], e[2])
  \/ \E r \in {"r1", "r2"}, id \in {"t1", "B", "C"} : Get(r, id)

SpecCycle == Init /\ [][NextCycle]_vars

----------------------------------------------------------------------------
(* SpecProduce: the free provider, whose locals is r3, asked to produce by  *)
(* the containers r1 and r2 in turn                                          *)

NextProduce ==
  \/ \E r \in {"r1", "r2"}, v \in {Prim("a"), Prim("b")} : Constant(r, "t1", v)
  \/ Constant("r3", "t1", Prim("o"))
  \/ \E r \in {"r1", "r2"} : Produce(r)
  \/ \E r \in {"r1", "r2"} : Get(r, "t1")

SpecProduce == Init /\ [][NextProduce]_vars

----------------------------------------------------------------------------
(* The parent graph *)

ParentsOf(S) == UNION {{parents[c][i] : i \in 1..Len(parents[c])} : c \in S}

RECURSIVE Closure(_, _)
Closure(S, n) == IF n = 0 THEN S ELSE Closure(S \cup ParentsOf(S), n - 1)

\* c and every container reachable from it through parent links.
Chain(c) == Closure({c}, Cardinality(Containers))

\* The proper ancestors of c.
Ancestors(c) == Closure(ParentsOf({c}), Cardinality(Containers))

\* No container of c's chain is its own ancestor.
Acyclic(c) == \A x \in Chain(c) : x \notin Ancestors(x)

\* Neither c nor an ancestor holds a provider or a cached value for id.
Unknown(c, id) == \A x \in Chain(c) : id \notin DOMAIN providers[x] /\ id \notin DOMAIN cache[x]

Resolve(c, id) == ContainerGet(Heap, c, id, MaxDepth)

----------------------------------------------------------------------------
(* Claims checked under Spec *)

\* C2: after constant(t, v) succeeded on a container, get(t) on that container
\* returns exactly v, for every v (null and undefined included), on the first
\* call and on every later one.
C2_ConstantResolvesToValue ==
  \A r \in Regs : \A t \in DOMAIN providers[Top(r)] :
    providers[Top(r)][t].kind = "constant" =>
      /\ Resolve(Top(r), t).ok
      /\ Resolve(Top(r), t).val = providers[Top(r)][t].value
      /\ (last.op = "get" /\ last.c = r /\ last.id = t) =>
           (last.ok /\ last.val = providers[Top(r)][t].value)

\* A get has just returned the falsy constant null, which is now in the cache.
C2_Witness ==
  /\ last.op = "get" /\ last.ok /\ last.val = Null
  /\ last.id \in DOMAIN providers[Top(last.c)]
  /\ providers[Top(last.c)][last.id].value = Null
  /\ last.id \in DOMAIN cache[Top(last.c)]

\* C3 (as claimed): when id has a provider only on p, a parent of child,
\* child.get(id) succeeds with the very value p.get(id) returns, the value
\* is cached on p and child's cache gains no entry for id.
C3_ChildGetsParentInstance ==
  \A i \in 1..(IF last.op = "get" THEN Len(parents[Top(last.c)]) ELSE 0) :
    LET child == Top(last.c)
        p == parents[child][i]
    IN (/\ last.id \in DOMAIN providers[p]
        /\ \A x \in Containers \ {p} : last.id \notin DOMAIN providers[x]
        /\ Acyclic(child)
        /\ Resolve(p, last.id).ok)
       => /\ last.ok
          /\ last.val = Resolve(p, last.id).val
          /\ last.id \in DOMAIN cache[p]
          /\ last.id \notin DOMAIN cache[child]

\* C4: a container that has a provider of its own for id resolves id to that
\* provider's value although an ancestor provides id too, in whatever order
\* the registrations, the inherit calls and earlier gets happened; the
\* ancestors' caches are not touched.
C4_LocalShadowsParent ==
  \A r \in Regs :
    LET child == Top(r)
        res == Resolve(child, "t1")
    IN (/\ "t1" \in DOMAIN providers[child]
        /\ \E p \in Ancestors(child) \ {child} : "t1" \in DOMAIN providers[p])
       => /\ res.ok
          /\ res.val = providers[child]["t1"].value
          /\ \A p \in Containers \ {child} : res.st.cache[p] = cache[p]
          /\ (last.op = "get" /\ last.c = r) => (last.ok /\ last.val = providers[child]["t1"].value)

\* The child has just resolved its own value while a parent that provides a
\* different value has already produced and cached it.
C4_Witness ==
  /\ last.op = "get" /\ last.ok /\ last.c = "r3"
  /\ "t1" \in DOMAIN providers[Top("r3")]
  /\ last.val = providers[Top("r3")]["t1"].value
  /\ Truthy(last.val)
  /\ \E p \in Ancestors(Top("r3")) :
       /\ "t1" \in DOMAIN cache[p]
       /\ Truthy(cache[p]["t1"])
       /\ cache[p]["t1"] # last.val

\* C5 (as claimed): with no cache entry and no provider of its own, a
\* container resolves id whenever at least one of its parents resolves it,
\* wherever that parent stands in the iteration order.
C5_AnyParentSuffices ==
  (/\ last.op = "get"
   /\ last.id \notin DOMAIN providers[Top(last.c)]
   /\ last.id \notin DOMAIN cache[Top(last.c)]
   /\ Acyclic(Top(last.c))
   /\ \E i \in 1..Len(parents[Top(last.c)]) :
        LET viaParent == Resolve(parents[Top(last.c)][i], last.id)
        IN viaParent.ok /\ viaParent.val # Undefined)
  => last.ok

C7_GetReturnsUndefined ==
  (last.op = "get" /\ Acyclic(Top(last.c)) /\ Unknown(Top(last.c), last.id))
    => (last.ok /\ last.val = Undefined)

----------------------------------------------------------------------------
(* Claims checked under SpecServices *)

IsServiceLike(prov) == prov.kind \in {"service", "interface"}

\* C1: a service or interface provider bound on a container is constructed
\* at most once, by the first get that succeeds (never before it); from then
\* on every get on that container returns that one instance and constructs
\* nothing.
C1_ConstructedOnce ==
  /\ \A c \in Containers : constructed[c] <= 1
  /\ \A r \in Regs : \A id \in DOMAIN providers[Top(r)] :
       IsServiceLike(providers[Top(r)][id]) =>
         LET locals == providers[Top(r)][id].locals
             again == Resolve(Top(r), id)
         IN /\ (id \in DOMAIN cache[Top(r)]) <=> (constructed[locals] = 1)
            /\ id \in DOMAIN cache[Top(r)] =>
                 /\ cache[Top(r)][id].k = "object"
                 /\ cache[Top(r)][id].at = locals
                 /\ cache[Top(r)][id].n = 1
                 /\ again.ok
                 /\ again.val = cache[Top(r)][id]
                 /\ again.st = Heap
            /\ (id \notin DOMAIN cache[Top(r)] /\ again.ok) =>
                 /\ again.st.constructed[locals] = 1
                 /\ MapGet(again.st.cache[Top(r)], id) = again.val
  /\ (last.op = "get" /\ last.ok /\ last.val.k = "object") =>
       /\ last.val.n = 1
       /\ MapGet(cache[Top(last.val.at[1])], last.val.at[2]) = last.val

\* The interface i1, built from B with the dependency t1, has been resolved
\* through the child r2 after it had been constructed.
C1_Witness ==
  /\ last.op = "get" /\ last.ok /\ last.c = "r2" /\ last.id = "i1"
  /\ last.val.k = "object" /\ last.val.ctor = "B" /\ Len(last.val.args) = 1
  /\ constructed[LocalsOf("r1", "i1")] = 1

\* C8: service and interface with a dependency list that is longer or shorter
\* than the constructor's parameter count fail, store no provider, resolve no
\* dependency and construct nothing; no stored provider has such a list.
C8_ArityMismatchRejected ==
  [][/\ (last'.op \in {"service", "interface"} /\ Len(last'.arg[2]) # Arity[last'.arg[1]])
        => (/\ ~last'.ok
            /\ providers' = providers
            /\ cache' = cache
            /\ parents' = parents
            /\ constructed' = constructed)
     /\ \A c \in Containers : \A id \in DOMAIN providers'[c] :
          IsServiceLike(providers'[c][id]) =>
            Len(providers'[c][id].dependencies) = Arity[providers'[c][id].service]]_vars

\* service(B, [t1, A]) has just been rejected for its two dependencies where
\* B declares one parameter, with t1 and A both resolvable on the container.
C8_Witness ==
  /\ last.op = "service" /\ ~last.ok /\ last.err = "Arity"
  /\ Len(last.arg[2]) > Arity[last.arg[1]]
  /\ "B" \notin DOMAIN providers[Top("r1")]
  /\ "t1" \in DOMAIN providers[Top("r1")]
  /\ "A" \in DOMAIN providers[Top("r1")]

\* C10: a service or interface of r1 whose override scope binds t1 is
\* constructed with the scope's value for t1; one that depends on t1 with no
\* such binding is constructed with r1's own value, and r1.get(t1) keeps
\* returning r1's own value, in whatever order they are resolved.
C10_OverrideScope ==
  /\ \A id \in DOMAIN cache[Top("r1")] :
       LET prov == providers[Top("r1")][id]
           made == cache[Top("r1")][id]
       IN IsServiceLike(prov) =>
            \A i \in 1..Len(prov.dependencies) :
              prov.dependencies[i] = "t1" =>
                made.args[i] = IF "t1" \in DOMAIN providers[prov.locals]
                               THEN providers[prov.locals]["t1"].value
                               ELSE providers[Top("r1")]["t1"].value
  /\ "t1" \in DOMAIN providers[Top("r1")] =>
       /\ Resolve(Top("r1"), "t1").ok
       /\ Resolve(Top("r1"), "t1").val = providers[Top("r1")]["t1"].value
       /\ "t1" \in DOMAIN cache[Top("r1")] =>
            cache[Top("r1")]["t1"] = providers[Top("r1")]["t1"].value

\* B was built with the override's value, its sibling i1 with r1's own value,
\* and r1 holds its own value in its cache.
C10_Witness ==
  /\ "B" \in DOMAIN cache[Top("r1")]
  /\ cache[Top("r1")]["B"].args = <<Prim("o")>>
  /\ "i1" \in DOMAIN cache[Top("r1")]
  /\ cache[Top("r1")]["i1"].args = <<Prim("a")>>
  /\ "t1" \in DOMAIN cache[Top("r1")]
  /\ cache[Top("r1")]["t1"] = Prim("a")

----------------------------------------------------------------------------
(* Claims checked under SpecRegister *)

RegisterOps == {"constant", "service", "interface", "provider"}

\* C9: constant, service, interface and provider fail for an identifier that
\* already has a provider, of whatever kind, in the same container, and leave
\* every provider table and cache as they were; with no provider in that
\* container the call succeeds whatever the other containers hold.
C9_DuplicateRejected ==
  [][last'.op \in RegisterOps =>
       IF last'.id \in DOMAIN providers[Top(last'.c)]
       THEN /\ ~last'.ok
            /\ providers' = providers
            /\ cache' = cache
       ELSE /\ last'.ok
            /\ last'.id \in DOMAIN providers'[Top(last'.c)]
            /\ \A x \in TopContainers \ {Top(last'.c)} : providers'[x] = providers[x]
            /\ cache' = cache]_vars

\* provider() has just been refused for an identifier whose instance is
\* cached in the container, while the other container provides it as well.
C9_Witness ==
  /\ last.op = "provider" /\ ~last.ok /\ last.err = "Duplicate"
  /\ last.id \in DOMAIN cache[Top(last.c)]
  /\ \E r \in Regs \ {last.c} : last.id \in DOMAIN providers[Top(r)]

----------------------------------------------------------------------------
(* Claims about a provider asked to produce by more than one container      *)
(* (SpecProduce)                                                             *)

\* C11: when the provider's locals does not bind the dependency, a produce
\* call resolves it only through the container passed to that call: if that
\* container cannot reach it the call fails as unresolved, and otherwise the
\* constructor receives what that container resolves it to.
C11_ResolvedThroughCaller ==
  (last.op = "produce" /\ "t1" \notin DOMAIN providers[FreeProvider.locals]) =>
     IF ContainerHas(Heap, Top(last.c), "t1", MaxDepth) = "false"
     THEN ~last.ok /\ last.err = "Unresolved"
     ELSE last.ok /\ last.val.args = <<Resolve(Top(last.c), "t1").val>>

\* C12: a produce call, returned or failed, leaves the parent set of the
\* provider's locals as it was before the call.
C12_ParentLinkTransient ==
  [][last'.op \in {"produce", "get"} => parents' = parents]_vars

----------------------------------------------------------------------------
(* Claims about the dependencies of a service (SpecDeps)                    *)

\* C13: a service of r1 whose override scope binds t1 only receives the
\* scope's t1 and, for every other dependency, the very instance r1.get
\* returns for it; that instance is in the cache of r1 and not in the cache
\* of the scope.
C13_FallsThroughToCaller ==
  \A id \in DOMAIN cache[Top("r1")] :
    LET prov == providers[Top("r1")][id]
        made == cache[Top("r1")][id]
    IN (IsServiceLike(prov) /\ DOMAIN providers[prov.locals] = {"t1"}) =>
         \A i \in 1..Len(prov.dependencies) :
           LET dep == prov.dependencies[i]
           IN IF dep = "t1"
              THEN made.args[i] = providers[prov.locals]["t1"].value
              ELSE /\ dep \in DOMAIN cache[Top("r1")]
                   /\ made.args[i] = MapGet(cache[Top("r1")], dep)
                   /\ made.args[i] = Resolve(Top("r1"), dep).val
                   /\ dep \notin DOMAIN cache[prov.locals]

\* C was built from [t1, A] with the scope's t1, although r1 binds t1 too,
\* and with the A that r1 holds in its cache.
C13_Witness ==
  /\ "C" \in DOMAIN cache[Top("r1")]
  /\ providers[Top("r1")]["C"].dependencies = <<"t1", "A">>
  /\ MapGet(providers[Top("r1")], "t1") = ConstantProvider("t1", Prim("a"))
  /\ cache[Top("r1")]["C"].args = <<Prim("o"), MapGet(cache[Top("r1")], "A")>>
  /\ cache[Top("r1")]["C"].args[2].k = "object"

----------------------------------------------------------------------------
(* Claims about has (SpecHas)                                               *)

\* Some container of c's chain holds a provider for id.
Registered(c, id) == \E x \in Chain(c) : id \in DOMAIN providers[x]

\* C14: on an acyclic chain has(id) is false when no container of the chain
\* ever registered id and true otherwise: it is true on a container and on
\* all its descendants right after a successful constant, service or
\* interface call, before any get, and it is true for whatever is cached.
C14_HasFollowsRegistration ==
  /\ (last.op = "has" /\ Acyclic(Top(last.c))) =>
       last.ok /\ last.val = Bool(Registered(Top(last.c), last.id))
  /\ (last.op \in {"constant", "service", "interface"} /\ last.ok) =>
       \A r \in Regs :
         (Top(last.c) \in Chain(Top(r)) /\ Acyclic(Top(r))) =>
           HasOutcome(Heap, Top(r), last.id).val = Bool(TRUE)
  /\ \A r \in Regs, id \in Ids :
       (Acyclic(Top(r)) /\ \E x \in Chain(Top(r)) : id \in DOMAIN cache[x]) =>
         HasOutcome(Heap, Top(r), id).val = Bool(TRUE)

\* r3.has(i1) answered true for an interface registered two levels up that
\* nobody has resolved yet.
C14_Witness ==
  /\ last.op = "has" /\ last.c = "r3" /\ last.id = "i1"
  /\ last.val = Bool(TRUE)
  /\ "i1" \in DOMAIN providers[Top("r1")]
  /\ \A c \in Containers : cache[c] = EmptyMap

\* C15: a call of has changes no provider table, no cache and no parent set,
\* runs no constructor, and on an acyclic chain it returns without throwing.
C15_HasIsPure ==
  [][last'.op = "has" =>
       /\ providers' = providers
       /\ cache' = cache
       /\ parents' = parents
       /\ constructed' = constructed
       /\ Acyclic(Top(last'.c)) => last'.ok]_vars

\* r3.has(t1) answered false although r3 has parents, and r3.has(A) answered
\* true without A being constructed.
C15_Witness ==
  /\ last.op = "has" /\ last.c = "r3" /\ last.ok
  /\ parents[Top("r3")] # <<>>
  /\ \/ last.id = "t1" /\ last.val = Bool(FALSE)
     \/ last.id = "A" /\ last.val = Bool(TRUE) /\ constructed[LocalsOf("r1", "A")] = 0

\* The positions of prov's dependency list that its resolver, once the
\* container c is linked to it, has nothing for.
MissingAt(prov, c) ==
  LET st == ProviderInherit(Heap, prov, c)
  IN {i \in 1..Len(prov.dependencies) :
        ContainerHas(st, InheritResolver(prov, c), prov.dependencies[i], MaxDepth) = "false"}

\* Each of the first n dependencies of prov resolves when asked for on its own.
ResolveUpTo(prov, c, n) ==
  LET st == ProviderInherit(Heap, prov, c)
  IN \A j \in 1..n : ContainerGet(st, InheritResolver(prov, c), prov.dependencies[j], MaxDepth).ok

\* C16: get of a service that is not cached yet and has a dependency its
\* resolver cannot find, at whatever position, throws, runs no constructor
\* of that service and caches nothing for it; the error is the
\* unresolved-dependency one when the dependencies before the missing one
\* resolve.
C16_MissingDependencyFails ==
  [][(/\ last'.op = "get"
      /\ last'.id \in DOMAIN providers[Top(last'.c)]
      /\ last'.id \notin DOMAIN cache[Top(last'.c)]
      /\ IsServiceLike(providers[Top(last'.c)][last'.id])
      /\ MissingAt(providers[Top(last'.c)][last'.id], Top(last'.c)) # {})
     => LET prov == providers[Top(last'.c)][last'.id]
            missing == MissingAt(prov, Top(last'.c))
            first == CHOOSE i \in missing : \A j \in missing : i <= j
        IN /\ ~last'.ok
           /\ constructed'[prov.locals] = constructed[prov.locals]
           /\ last'.id \notin DOMAIN cache'[Top(last'.c)]
           /\ ResolveUpTo(prov, Top(last'.c), first - 1) => last'.err = "Unresolved"]_vars

\* r1.get(C) failed as unresolved on the second dependency of [A, t1], after
\* A had been resolved for it, and C was not constructed.
C16_Witness ==
  /\ last.op = "get" /\ last.id = "C" /\ ~last.ok /\ last.err = "Unresolved"
  /\ providers[Top("r1")]["C"].dependencies = <<"A", "t1">>
  /\ "A" \in DOMAIN cache[Top("r1")]
  /\ "t1" \notin DOMAIN providers[Top("r1")]
  /\ constructed[LocalsOf("r1", "C")] = 0

\* The heap after the step.
HeapAfter == [providers |-> providers', cache |-> cache', parents |-> parents', constructed |-> constructed']

\* The first position of prov's dependency list that does not resolve once
\* the container c is linked to the resolver; 0 when all of them resolve.
FirstFailing(prov, c) ==
  LET st == ProviderInherit(Heap, prov, c)
      bad == {i \in 1..Len(prov.dependencies) :
                ~ContainerGet(st, InheritResolver(prov, c), prov.dependencies[i], MaxDepth).ok}
                \cup MissingAt(prov, c)
  IN IF bad = {} THEN 0 ELSE CHOOSE i \in bad : \A j \in bad : i <= j

\* C17: get of a service that is not cached yet resolves its dependency
\* list from left to right: if it succeeds the constructor received as
\* many arguments as the list is long, the i-th being what the resolver
\* returns for the i-th identifier (the same value twice for an identifier
\* listed twice); if it fails at some position, the identifiers before it
\* have been resolved and cached and those that only occur after it have
\* not been touched.
C17_PositionalInOrder ==
  [][(/\ last'.op = "get"
      /\ last'.id \in DOMAIN providers[Top(last'.c)]
      /\ last'.id \notin DOMAIN cache[Top(last'.c)]
      /\ IsServiceLike(providers[Top(last'.c)][last'.id]))
     => LET c == Top(last'.c)
            prov == providers[c][last'.id]
            deps == prov.dependencies
            resolver == InheritResolver(prov, c)
            k == FirstFailing(prov, c)
            CachedIn(h, id) == id \in DOMAIN h[c] \/ id \in DOMAIN h[resolver]
        IN IF last'.ok
           THEN /\ k = 0
                /\ Len(last'.val.args) = Len(deps)
                /\ \A i \in 1..Len(deps) :
                     last'.val.args[i] = ContainerGet(HeapAfter, resolver, deps[i], MaxDepth).val
           ELSE /\ k > 0
                /\ \A j \in 1..(k - 1) : CachedIn(cache', deps[j])
                /\ \A j \in (k + 1)..Len(deps) :
                     (\A i \in 1..k : deps[i] # deps[j]) =>
                       (CachedIn(cache', deps[j]) <=> CachedIn(cache, deps[j]))]_vars

\* C was built from [A, A] with the one A of r1 in both positions.
C17_Witness ==
  /\ last.op = "get" /\ last.id = "C" /\ last.ok
  /\ providers[Top("r1")]["C"].dependencies = <<"A", "A">>
  /\ last.val.args = <<MapGet(cache[Top("r1")], "A"), MapGet(cache[Top("r1")], "A")>>
  /\ last.val.args[1].k = "object"
  /\ constructed[LocalsOf("r1", "A")] = 1

----------------------------------------------------------------------------
(* Claims about failed calls of get (Spec)                                  *)

\* Container c can resolve id in heap h by the rule of the lookup: it holds
\* a provider for id, or one of its parents returns a value for id.
Resolvable(h, c, id) ==
  \/ id \in DOMAIN h.providers[c]
  \/ \E i \in 1..Len(h.parents[c]) :
       LET r == ContainerGet(h, h.parents[c][i], id, MaxDepth)
       IN r.ok /\ r.val # Undefined

\* C18: a get that failed leaves no cache entry for its identifier, and when
\* the next call is a registration or an inherit that makes the identifier
\* resolvable on the same container, get of it succeeds there.
C18_FailuresNotCached ==
  [][/\ (last'.op = "get" /\ ~last'.ok) => last'.id \notin DOMAIN cache'[Top(last'.c)]
     /\ (/\ last.op = "get" /\ ~last.ok
         /\ last'.op \in {"constant", "inherit"} /\ last'.ok
         /\ Resolvable(HeapAfter, Top(last.c), last.id))
        => ContainerGet(HeapAfter, Top(last.c), last.id, MaxDepth).ok]_vars

----------------------------------------------------------------------------
(* Claims about when services are made (SpecLazy)                           *)

\* C19: a call of constant, service, interface, provider or inherit runs no
\* constructor and adds no cache entry, also when the custom function being
\* registered would resolve a service; a constructor only ever runs inside
\* a call of get.
C19_RegistrationIsLazy ==
  [][/\ last'.op \in RegisterOps \cup {"inherit"} =>
          cache' = cache /\ constructed' = constructed
     /\ constructed' # constructed => last'.op = "get"]_vars

\* Everything is registered on r1, the custom provider that resolves A was
\* registered last, and nothing has been constructed or cached.
C19_Witness ==
  /\ last.op = "provider" /\ last.ok
  /\ DOMAIN providers[Top("r1")] = {"t1", "A", "B", "i1", "t2"}
  /\ providers[Top("r1")]["t2"].fn.f = "get"
  /\ parents[Top("r2")] = <<Top("r1")>>
  /\ \A c \in Containers : cache[c] = EmptyMap /\ constructed[c] = 0

----------------------------------------------------------------------------
(* Claims about shared dependencies (SpecDeps)                              *)

\* C20: every service of r1 that depends on A was constructed with the one
\* instance of A that r1 holds in its cache and that r1.get(A) returns, and
\* the constructor of A ran once, in whatever order the services and A were
\* asked for.
C20_SharedSingleton ==
  /\ constructed[LocalsOf("r1", "A")] <= 1
  /\ "A" \in DOMAIN cache[Top("r1")] =>
       /\ constructed[LocalsOf("r1", "A")] = 1
       /\ Resolve(Top("r1"), "A").val = cache[Top("r1")]["A"]
       /\ Resolve(Top("r1"), "A").st.constructed = constructed
  /\ \A id \in DOMAIN cache[Top("r1")] :
       LET prov == providers[Top("r1")][id]
       IN IsServiceLike(prov) =>
            \A i \in 1..Len(prov.dependencies) :
              prov.dependencies[i] = "A" =>
                cache[Top("r1")][id].args[i] = MapGet(cache[Top("r1")], "A")

\* B and C were asked for first and r1.get(A) last: all three hold the same A.
C20_Witness ==
  /\ last.op = "get" /\ last.id = "A" /\ last.ok
  /\ {"B", "C"} \subseteq DOMAIN cache[Top("r1")]
  /\ cache[Top("r1")]["B"].args = <<last.val>>
  /\ cache[Top("r1")]["C"].args[2] = last.val
  /\ last.val.k = "object"
  /\ constructed[LocalsOf("r1", "A")] = 1

----------------------------------------------------------------------------
(* Claims about the identity of tokens (SpecTokens)                         *)

\* C21: constant(t, v) is rejected as a duplicate only when the container
\* holds a provider for the very token t, whatever tokens of the same name
\* it holds, and get(t) on a container that holds a provider for t returns
\* the value bound to t itself.
C21_IdentityNotName ==
  [][/\ (last'.op = "constant" /\ IsToken(last'.id)) =>
          (last'.ok <=> last'.id \notin DOMAIN providers[Top(last'.c)])
     /\ (last'.op = "get" /\ last'.id \in DOMAIN providers[Top(last'.c)]) =>
          last'.ok /\ last'.val = providers[Top(last'.c)][last'.id].value]_vars

\* r1 holds t1 -> 'a' and t2 -> 'b', two tokens of one name; get(t1) gave
\* 'a' earlier and get(t2) has just returned 'b'.
C21_Witness ==
  /\ Name["t1"] = Name["t2"]
  /\ last.op = "get" /\ last.c = "r1" /\ last.id = "t2" /\ last.val = Prim("b")
  /\ MapGet(providers[Top("r1")], "t1") = ConstantProvider("t1", Prim("a"))
  /\ MapGet(cache[Top("r1")], "t1") = Prim("a")

----------------------------------------------------------------------------
(* Claims about the cache and custom providers (SpecCustom)                 *)

\* C22: a cache entry, whatever its value, is never replaced or removed, and
\* get of an identifier the container has a cache entry for returns that
\* entry without running a constructor or a custom function.
C22_CacheIsWriteOnce ==
  [][/\ \A c \in Containers : \A id \in DOMAIN cache[c] :
          id \in DOMAIN cache'[c] /\ cache'[c][id] = cache[c][id]
     /\ (last'.op = "get" /\ last'.id \in DOMAIN cache[Top(last'.c)]) =>
          /\ last'.ok
          /\ last'.val = cache[Top(last'.c)][last'.id]
          /\ constructed' = constructed]_vars

\* C23: provider(id, fn) is refused only for an identifier the container
\* already has a provider for, whatever id is; get(id) on that container
\* then returns what fn returns when called with that container, be it
\* falsy, and when fn throws, get throws fn's error and caches nothing.
C23_CustomPassedThrough ==
  [][/\ last'.op = "provider" =>
          (last'.ok <=> last'.id \notin DOMAIN providers[Top(last'.c)])
     /\ (/\ last'.op = "get"
         /\ last'.id \in DOMAIN providers[Top(last'.c)]
         /\ providers[Top(last'.c)][last'.id].kind = "custom"
         /\ ~Truthy(MapGet(cache[Top(last'.c)], last'.id)))
        => LET c == Top(last'.c)
               fn == providers[c][last'.id].fn
           IN /\ fn.f = "value" => last'.ok /\ last'.val = fn.value
              /\ fn.f = "count" => last'.ok /\ last'.val = Num(constructed[fn.at])
              /\ fn.f = "throw" => ~last'.ok /\ last'.err = "Custom" /\ cache' = cache
              /\ fn.f = "get" =>
                   LET r == ContainerGet(Heap, c, fn.dep, MaxDepth)
                   IN last'.ok = r.ok /\ last'.val = r.val /\ last'.err = r.err]_vars

\* The service function B, which declares one parameter, is bound on r1 to
\* a function that resolves t1 on the container it is given; r1.get(B) has
\* returned r1's t1 although the child r2, which binds t1 too, exists.
C23_Witness ==
  /\ last.op = "get" /\ last.c = "r1" /\ last.id = "B" /\ last.ok
  /\ providers[Top("r1")]["B"].fn.f = "get"
  /\ last.val = Prim("a")
  /\ MapGet(providers[Top("r2")], "t1") = ConstantProvider("t1", Prim("b"))
  /\ parents[Top("r2")] = <<Top("r1")>>

\* C26: when a get of an identifier is entered again before the first one
\* has written the cache, the identifier's object is still made once, and
\* every get returns the object the cache holds.
C26_OnceUnderReentry ==
  /\ \A c \in TopContainers : \A id \in DOMAIN providers[c] :
       LET prov == providers[c][id]
       IN (prov.kind = "custom" /\ prov.fn.f = "reenter") => constructed[prov.fn.at] <= 1
  /\ (last.op = "get" /\ last.ok /\ last.val.k = "object") =>
       \E c \in TopContainers : MapGet(cache[c], last.id) = last.val

----------------------------------------------------------------------------
(* Claims about interfaces (SpecLazy)                                       *)

\* C24: interface(token, service, deps) stores its provider under the token
\* and under nothing else: get(token) yields an object made by service,
\* get(service) fails as long as service was not registered by itself, and
\* when it was, get(token) and get(service) yield two different objects,
\* each made by one constructor call.
C24_InterfaceKeyedByToken ==
  LET c == Top("r1")
  IN /\ \A id \in DOMAIN providers[c] :
          providers[c][id].kind = "interface" => IsToken(id) /\ providers[c][id].serviceID = id
     /\ (last.op = "interface" /\ last.ok) =>
          /\ last.id \in DOMAIN providers[Top(last.c)]
          /\ providers[Top(last.c)][last.id].service = last.arg[1]
     /\ "A" \notin DOMAIN providers[c] => ~Resolve(c, "A").ok
     /\ "i1" \in DOMAIN cache[c] =>
          /\ cache[c]["i1"].ctor = "A"
          /\ constructed[LocalsOf("r1", "i1")] = 1
     /\ ("i1" \in DOMAIN cache[c] /\ "A" \in DOMAIN cache[c]) =>
          /\ cache[c]["i1"] # cache[c]["A"]
          /\ constructed[LocalsOf("r1", "A")] = 1

\* i1 is bound to A and A is registered as a service too; both were asked
\* for, A last, and r1 holds two objects made by A.
C24_Witness ==
  /\ last.op = "get" /\ last.c = "r1" /\ last.id = "A" /\ last.ok
  /\ "i1" \in DOMAIN cache[Top("r1")]
  /\ cache[Top("r1")]["i1"].ctor = "A"
  /\ last.val.ctor = "A"
  /\ last.val # cache[Top("r1")]["i1"]

----------------------------------------------------------------------------
(* Claims about argument checks (SpecTypes)                                 *)

\* C25: constant and interface called with something that is not a Token in
\* the token position, and service and interface called with something that
\* is not a function in the service position, throw a TypeError and leave
\* every provider table, cache and parent set as it was.
C25_WrongKindRejected ==
  [][(\/ last'.op = "constant" /\ ~IsToken(last'.id)
      \/ last'.op = "service" /\ ~IsFunction(last'.id)
      \/ last'.op = "interface" /\ (~IsToken(last'.id) \/ ~IsFunction(last'.arg[1])))
     => /\ ~last'.ok
        /\ last'.err = "TypeError"
        /\ providers' = providers
        /\ cache' = cache
        /\ parents' = parents]_vars

\* interface(t1, 'hey') was refused on a container that holds the service A
\* and nothing under t1.
C25_Witness ==
  /\ last.op = "interface" /\ last.id = "t1" /\ last.arg[1] = NotAnId
  /\ ~last.ok /\ last.err = "TypeError"
  /\ DOMAIN providers[Top("r1")] = {"A"}

----------------------------------------------------------------------------
(* Claims about inherit (Spec)                                              *)

\* C27: inherit(p) on a container that has p among its parents changes
\* nothing at all; otherwise it appends p to that container's parents and
\* changes nothing else; no parent is ever listed twice.
C27_InheritIdempotent ==
  [][last'.op = "inherit" =>
       LET c == Top(last'.c)
           p == Top(last'.id)
       IN /\ providers' = providers
          /\ cache' = cache
          /\ constructed' = constructed
          /\ parents' = IF InSeq(parents[c], p) THEN parents
                        ELSE [parents EXCEPT ![c] = Append(@, p)]
          /\ \A i, j \in 1..Len(parents'[c]) : parents'[c][i] = parents'[c][j] => i = j]_vars

\* r3 inherited r1, then r2, then r1 once more.
C27_Witness ==
  /\ last.op = "inherit" /\ last.c = "r3" /\ last.id = "r1"
  /\ parents[Top("r3")] = <<Top("r1"), Top("r2")>>

----------------------------------------------------------------------------
(* Claims about cycles and termination (SpecCycle)                          *)

\* The identifiers that the service and interface providers for id, on
\* whatever container, list as dependencies.
DependsOn(S) ==
  UNION {{providers[c][id].dependencies[i] : i \in 1..Len(providers[c][id].dependencies)} :
           <<c, id>> \in {x \in Containers \X S : x[2] \in DOMAIN providers[x[1]]
                                                   /\ IsServiceLike(providers[x[1]][x[2]])}}

RECURSIVE DepClosure(_, _)
DepClosure(S, n) == IF n = 0 THEN S ELSE DepClosure(S \cup DependsOn(S), n - 1)

\* id is among the dependencies of its own dependencies.
DependsOnItself(id) == id \in DepClosure(DependsOn({id}), Cardinality(Ids))

\* C28: get on a container that is its own ancestor, for an identifier that
\* no container of its chain has a provider or a cache entry for, and get of
\* a service that depends on itself through another one, end in the
\* exhaustion of the stack and in no error of the container, and write no
\* cache entry.
C28_CyclesExhaustStack ==
  [][(/\ last'.op = "get"
      /\ \/ /\ Top(last'.c) \in Ancestors(Top(last'.c))
            /\ Unknown(Top(last'.c), last'.id)
         \/ /\ last'.id \in DOMAIN providers[Top(last'.c)]
            /\ DependsOnItself(last'.id))
     => /\ ~last'.ok
        /\ last'.err = "RangeError"
        /\ cache' = cache]_vars

\* C29: when the container asked is not on or below a cycle of parents and
\* no service that the identifier needs depends on itself, get returns a
\* value or throws an error of the container or of a provider; the stack
\* is never exhausted.
C29_AcyclicTerminates ==
  [][(/\ last'.op = "get"
      /\ Acyclic(Top(last'.c))
      /\ \A id \in DepClosure({last'.id}, Cardinality(Ids)) : ~DependsOnItself(id))
     => /\ last'.err # "RangeError"
        /\ last'.ok \/ last'.err \in {"NotFound", "Unresolved"}]_vars

\* r2.get(C) went up to r1, whose C needs B twice and whose B needs t1, and
\* came back with the object.
C29_Witness ==
  /\ last.op = "get" /\ last.c = "r2" /\ last.id = "C" /\ last.ok
  /\ parents[Top("r2")] = <<Top("r1")>>
  /\ parents[Top("r1")] = <<>>
  /\ providers[Top("r1")]["C"].dependencies = <<"B", "B">>
  /\ providers[Top("r1")]["B"].dependencies = <<"t1">>
  /\ last.val.args[1].args = <<Prim("a")>>

----------------------------------------------------------------------------
(* Claims about values that come from a parent (Spec)                       *)

\* C30: when the only parent p of a container holds the only provider for
\* id, get(id) on the container returns just what p.get(id) returns,
\* whatever that value is, and does not throw.
C30_ParentValueUnchanged ==
  [][(/\ last'.op = "get"
      /\ Len(parents[Top(last'.c)]) = 1
      /\ parents[Top(last'.c)][1] # Top(last'.c)
      /\ last'.id \in DOMAIN providers[parents[Top(last'.c)][1]]
      /\ last'.id \notin DOMAIN providers[Top(last'.c)])
     => LET r == ContainerGet(Heap, parents[Top(last'.c)][1], last'.id, MaxDepth)
        IN /\ r.ok
           /\ last'.ok
           /\ last'.val = r.val]_vars

----------------------------------------------------------------------------
(* SpecAgree: has and get asked of a hierarchy whose containers hold only   *)
(* constants, one of them undefined                                          *)

NextAgree ==
  \/ \E r \in Regs, v \in {Undefined, Prim("a")} : Constant(r, "t1", v)
  \/ \E e \in HierEdges : Inherit(e[1], e[2])
  \/ \E r \in Regs : Get(r, "t1")
  \/ \E r \in Regs : Has(r, "t1")

SpecAgree == Init /\ [][NextAgree]_vars

\* C31: on an acyclic hierarchy of containers that hold only constants,
\* has(id) is true on a container exactly when get(id) on it returns
\* without throwing.
C31_HasAgreesWithGet ==
  \A r \in Regs :
    Acyclic(Top(r)) =>
      (HasOutcome(Heap, Top(r), "t1").val = Bool(TRUE)
         <=> ContainerGet(Heap, Top(r), "t1", MaxDepth).ok)

----------------------------------------------------------------------------
(* SpecOwner: the service B(x) registered on r1 and resolved on r1 and      *)
(* through r2 and r3, each container holding its own constant for x; r3 is  *)
(* a child of r1 or its parent                                               *)

OwnerEdges == {<<"r2", "r1">>, <<"r3", "r1">>, <<"r1", "r3">>}

OwnValue == [r1 |-> Prim("a"), r2 |-> Prim("b"), r3 |-> Prim("c")]

NextOwner ==
  \/ \E r \in Regs : Constant(r, "t1", OwnValue[r])
  \/ Service("r1", "B", <<"t1">>, <<>>)
  \/ \E e \in OwnerEdges : Inherit(e[1], e[2])
  \/ \E r \in Regs, id \in {"t1", "B"} : Get(r, id)

SpecOwner == Init /\ [][NextOwner]_vars

\* The constant that container c or the nearest of its first parents holds
\* for id, undefined when none of them does.
RECURSIVE NearestValue(_, _, _)
NearestValue(c, id, n) ==
  IF id \in DOMAIN providers[c] THEN providers[c][id].value
  ELSE IF n = 0 \/ parents[c] = <<>> THEN Undefined
  ELSE NearestValue(parents[c][1], id, n - 1)

\* C32: a service registered on a container p is built against p whichever
\* container of an acyclic hierarchy is asked: get of it through a child
\* fails when p has not made it yet and p's chain has nothing for the
\* dependency, whatever the child holds; when it succeeds the instance is
\* the one p has cached or, if p had none, one made by p's provider from
\* the constant nearest to p; it is cached on p and not on the child, was
\* constructed once, and is what every descendant of p gets.
C32_BuiltAgainstOwner ==
  [][\A p \in Regs :
       (/\ last'.op = "get" /\ last'.id = "B"
        /\ Acyclic(Top(last'.c))
        /\ Top(p) \in Chain(Top(last'.c))
        /\ "B" \in DOMAIN providers[Top(p)])
       => /\ ("B" \notin DOMAIN cache[Top(p)] /\ ~Registered(Top(p), "t1")) => ~last'.ok
          /\ "B" \in DOMAIN cache[Top(p)] => last'.ok /\ last'.val = cache[Top(p)]["B"]
          /\ last'.ok =>
               /\ last'.val.k = "object"
               /\ last'.val.at = LocalsOf(p, "B")
               /\ "B" \notin DOMAIN cache[Top(p)] =>
                    last'.val.args = <<NearestValue(Top(p), "t1", Cardinality(Regs))>>
               /\ MapGet(cache'[Top(p)], "B") = last'.val
               /\ last'.c # p => "B" \notin DOMAIN cache'[Top(last'.c)]
               /\ constructed'[LocalsOf(p, "B")] = 1
               /\ \A r \in Regs :
                    (Acyclic(Top(r)) /\ Top(p) \in Chain(Top(r))) =>
                      ContainerGet(HeapAfter, Top(r), "B", MaxDepth).val = last'.val]_vars

\* r2.get(B) returned the B that r1 made from r3's constant, r3 being the
\* parent of r1, although r2 holds a constant of its own; r1 has cached it.
C32_Witness ==
  /\ last.op = "get" /\ last.c = "r2" /\ last.id = "B" /\ last.ok
  /\ "t1" \in DOMAIN providers[Top("r2")]
  /\ "t1" \notin DOMAIN providers[Top("r1")]
  /\ parents[Top("r1")] = <<Top("r3")>>
  /\ last.val.args = <<OwnValue["r3"]>>
  /\ MapGet(cache[Top("r1")], "B") = last.val
  /\ "B" \notin DOMAIN cache[Top("r2")]

----------------------------------------------------------------------------
(* Claims about what the cache of a container may hold (SpecServices)       *)

\* Every cache entry of container c is what the provider that c itself holds
\* for the identifier produces.
CacheFromOwnProviders(c) ==
  \A id \in DOMAIN cache[c] :
    /\ id \in DOMAIN providers[c]
    /\ providers[c][id].kind = "constant" => cache[c][id] = providers[c][id].value
    /\ IsServiceLike(providers[c][id]) =>
         /\ cache[c][id].k = "object"
         /\ cache[c][id].ctor = providers[c][id].service
         /\ cache[c][id].at = providers[c][id].locals

\* C33: in every reachable state every identifier in the cache of a
\* container has a provider in the provider table of that same container
\* and the cached value is what that provider produced, so nothing obtained
\* from a parent is cached; and no step removes or replaces a provider.
C33_CacheWithinProviders ==
  /\ [](\A c \in Containers : CacheFromOwnProviders(c))
  /\ [][\A c \in Containers : \A id \in DOMAIN providers[c] :
          /\ id \in DOMAIN providers'[c]
          /\ providers'[c][id] = providers[c][id]]_vars

\* r2 has resolved the constant and the service B of its parent r1, which
\* cached both, and the cache of r2 holds its own constant only.
C33_Witness ==
  /\ last.op = "get" /\ last.c = "r2" /\ last.ok /\ last.id = "B"
  /\ DOMAIN providers[Top("r2")] = {"t1"}
  /\ DOMAIN cache[Top("r2")] = {"t1"}
  /\ {"t1", "B"} \subseteq DOMAIN cache[Top("r1")]
  /\ cache[Top("r1")]["B"] = last.val

----------------------------------------------------------------------------
(* Claims about failed registrations (SpecServices)                         *)

\* The dependency lists of the right length for a service function.
RightDeps(service) == {deps \in {<<>>, <<"t1">>, <<"t1", "A">>} : ArityOk(service, deps)}

\* The outcome of registering, in heap h, what the call recorded in l
\* registered, with the dependency list deps and no override scope.
Reregister(h, l, deps) ==
  IF l.op = "service" THEN ContainerService(h, l.c, l.arg[1], deps, <<>>)
  ELSE ContainerInterface(h, l.c, l.id, l.arg[1], deps, <<>>)

\* C34: a service or interface call that fails on the dependency count or
\* as a duplicate changes no provider table, no cache and no parent set of
\* any container and leaves the answer of has as it was on every container.
\* After a failure on the count the identifier is still free: registering it
\* with a list of the right length succeeds, at once and as the next call.
\* After a failure as a duplicate the provider registered before is still
\* the one in place.
C34_FailedRegistrationLeavesNoTrace ==
  [][/\ (last'.op \in {"service", "interface"} /\ last'.err \in {"Arity", "Duplicate"})
        => /\ ~last'.ok
           /\ providers' = providers
           /\ cache' = cache
           /\ parents' = parents
           /\ \A r \in Regs :
                HasOutcome(HeapAfter, Top(r), last'.id).val = HasOutcome(Heap, Top(r), last'.id).val
           /\ last'.err = "Arity" =>
                /\ last'.id \notin DOMAIN providers'[Top(last'.c)]
                /\ \A deps \in RightDeps(last'.arg[1]) : Reregister(HeapAfter, last', deps).ok
           /\ last'.err = "Duplicate" =>
                /\ last'.id \in DOMAIN providers[Top(last'.c)]
                /\ providers'[Top(last'.c)][last'.id] = providers[Top(last'.c)][last'.id]
     /\ (/\ last.op \in {"service", "interface"} /\ last.err = "Arity"
         /\ last'.op = last.op /\ last'.c = last.c /\ last'.id = last.id
         /\ last'.arg[1] = last.arg[1]
         /\ ArityOk(last'.arg[1], last'.arg[2]))
        => last'.ok /\ last'.id \in DOMAIN providers'[Top(last'.c)]]_vars

\* interface(i1, B, []) has just failed on the dependency count on r1, which
\* has resolved its service A and is the parent of r2; i1 is not registered.
C34_Witness ==
  /\ last.op = "interface" /\ last.c = "r1" /\ last.id = "i1"
  /\ ~last.ok /\ last.err = "Arity" /\ last.arg = <<"B", <<>>>>
  /\ "i1" \notin DOMAIN providers[Top("r1")]
  /\ "A" \in DOMAIN cache[Top("r1")]
  /\ parents[Top("r2")] = <<Top("r1")>>

----------------------------------------------------------------------------
(* SpecPartial: the service C(x, y) of r1 whose second dependency t2 may be *)
(* registered only after a first get of C; its first dependency is the      *)
(* service A or a custom provider under t1. Dependencies are resolved only  *)
(* on behalf of C.                                                           *)

PartialFns == {[f |-> "value", value |-> Prim("c")], [f |-> "count", at |-> LocalsOf("r1", "t1")]}

NextPartial ==
  \/ Constant("r1", "t2", Prim("a"))
  \/ Service("r1", "A", <<>>, <<>>)
  \/ \E fn \in PartialFns : Provider("r1", "t1", fn)
  \/ \E deps \in {<<"t1", "t2">>, <<"A", "t2">>} : Service("r1", "C", deps, <<>>)
  \/ \E id \in {"C", "t2"} : Get("r1", id)

SpecPartial == Init /\ [][NextPartial]_vars

\* C35: when get of a service that is not cached fails at its k-th
\* dependency, the dependencies before it are cached on the container that
\* holds their providers (the override scope or the container of the
\* service), the service has no cache entry and was not
\* constructed; when get of it succeeds, every dependency that was cached
\* already is passed as cached and nothing is run again to make it.
C35_PartialWorkIsKept ==
  [][(/\ last'.op = "get"
      /\ last'.id \in DOMAIN providers[Top(last'.c)]
      /\ last'.id \notin DOMAIN cache[Top(last'.c)]
      /\ IsServiceLike(providers[Top(last'.c)][last'.id]))
     => LET c == Top(last'.c)
            prov == providers[c][last'.id]
            deps == prov.dependencies
            resolver == InheritResolver(prov, c)
            k == FirstFailing(prov, c)
            Owner(id) == IF id \in DOMAIN providers[resolver] THEN resolver ELSE c
        IN IF ~last'.ok
           THEN /\ k > 0
                /\ \A j \in 1..(k - 1) : deps[j] \in DOMAIN cache'[Owner(deps[j])]
                /\ last'.id \notin DOMAIN cache'[c]
                /\ constructed'[prov.locals] = constructed[prov.locals]
           ELSE \A j \in 1..Len(deps) :
                  deps[j] \in DOMAIN cache[Owner(deps[j])] =>
                    /\ last'.val.args[j] = cache[Owner(deps[j])][deps[j]]
                    /\ constructed'[LocalsOf(last'.c, deps[j])] = constructed[LocalsOf(last'.c, deps[j])]]_vars

====
